---- MODULE Spec2Model ----
(***************************************************************************)
(* Availability and reservation engine of the CShare rental marketplace.   *)
(*                                                                         *)
(* Time is counted in whole hours since 1970-01-01T00:00Z (a JavaScript    *)
(* Date is an instant; the model keeps it to the hour).  Every browser     *)
(* session has a fixed UTC offset tz in whole hours; daylight-saving       *)
(* changes of the offset are not modelled.  A calendar date is the triple  *)
(* <<year, month, day>>, as it is written in a YYYY-MM-DD string.          *)
(***************************************************************************)
EXTENDS Integers, Sequences, FiniteSets, TLC

VARIABLES
    now,            \* the wall clock, an instant
    tz,             \* UTC offset of each user's browser
    items,          \* collection items/{itemId}
    bookings,       \* collection bookings/{bookingId}
    bookingLocks,   \* collection bookingLocks/{itemId_date}
    currentItem,    \* store.currentItemId / store.currentItemData of each session
    pc,             \* where each session's submitBookingRequest stands
    req,            \* the locals of each session's running submitBookingRequest
    alert,          \* the last alert shown, and the session that showed it
    submitDay,      \* history: the local "today" each stored booking was validated against
    lost,           \* history: the bookings whose commit was applied but reported as failed
    fin,            \* inputs of the pure-function specifications
    fout,           \* results of the pure-function specifications
    replay          \* the replay.* keys of the store, the playback buttons and the pending timeouts

vars == <<now, tz, items, bookings, bookingLocks, currentItem, pc, req, alert, submitDay, lost, fin, fout, replay>>

(***************************************************************************)
(* Bounds of the model.                                                    *)
(***************************************************************************)
NumDays == 3        \* calendar days a form can name, from FirstDay on
MaxBookings == 2    \* bookings the store may hold
MaxTicks == 1       \* clock advances
MaxHistory == 2     \* entries of a statusHistory
MaxActions == 2     \* accept/decline actions on one booking, where any user acts
MaxOwnerActions == 3    \* accept/decline actions on one booking, where the owner's views act
MaxEvents == 6      \* events of a recorded session

HoursPerDay == 24

(***************************************************************************)
(* The proleptic Gregorian calendar behind Date: day number <-> date.      *)
(***************************************************************************)
DaysFromCivil(ymd) ==
    LET y0  == ymd[1]
        m   == ymd[2]
        d   == ymd[3]
        y   == IF m <= 2 THEN y0 - 1 ELSE y0
        era == y \div 400
        yoe == y - era * 400
        mp  == IF m > 2 THEN m - 3 ELSE m + 9
        doy == (153 * mp + 2) \div 5 + d - 1
        doe == yoe * 365 + yoe \div 4 - yoe \div 100 + doy
    IN  era * 146097 + doe - 719468

CivilFromDays(n) ==
    LET z   == n + 719468
        era == z \div 146097
        doe == z - era * 146097
        yoe == (doe - doe \div 1460 + doe \div 36524 - doe \div 146096) \div 365
        doy == doe - (365 * yoe + yoe \div 4 - yoe \div 100)
        mp  == (5 * doy + 2) \div 153
        d   == doy - (153 * mp + 2) \div 5 + 1
        m   == IF mp < 10 THEN mp + 3 ELSE mp - 9
        y   == yoe + era * 400 + (IF m <= 2 THEN 1 ELSE 0)
    IN  <<y, m, d>>

\* date strings compare like the dates they name
DateLess(a, b) ==
    \/ a[1] < b[1]
    \/ a[1] = b[1] /\ a[2] < b[2]
    \/ a[1] = b[1] /\ a[2] = b[2] /\ a[3] < b[3]

DateLeq(a, b) == a = b \/ DateLess(a, b)

(***************************************************************************)
(* Date operations, at UTC offset z.                                       *)
(***************************************************************************)
\* new Date(str + 'T00:00:00'): local midnight of the date the string names
ParseLocalMidnight(str, z) == DaysFromCivil(str) * HoursPerDay - z

\* getFullYear()/getMonth()/getDate(): the local calendar date of an instant
LocalDate(t, z) == CivilFromDays((t + z) \div HoursPerDay)

\* setHours(0, 0, 0, 0): the local midnight at or before an instant
SetHoursZero(t, z) == ((t + z) \div HoursPerDay) * HoursPerDay - z

\* new Date(y, m, d) of an instant's local date
DateOnly(t, z) == SetHoursZero(t, z)

\* toISOString().split('T')[0]: the UTC calendar date of an instant
ISODate(t) == CivilFromDays(t \div HoursPerDay)

\* getDay(): the local weekday of an instant, 0 = Sunday
\* (1970-01-01 was a Thursday, weekday 4)
GetDay(t, z) == (((t + z) \div HoursPerDay) + 4) % 7

\* setDate(getDate() + 1): the same local time on the next local day
NextLocalDay(t, z) == ParseLocalMidnight(CivilFromDays((t + z) \div HoursPerDay + 1), z)
                          + ((t + z) % HoursPerDay)

(***************************************************************************)
(* validators.js                                                           *)
(***************************************************************************)
\* a lock id `${itemId}_${YYYY-MM-DD}`
LockId(itemId, date) == <<itemId, date>>

RECURSIVE BuildLoop(_, _, _, _)
BuildLoop(itemId, cursor, end, z) ==
    IF cursor <= end
    THEN <<LockId(itemId, ISODate(cursor))>> \o BuildLoop(itemId, NextLocalDay(cursor, z), end, z)
    ELSE <<>>

buildLockIds(itemId, startDate, endDate, z) ==
    BuildLoop(itemId, SetHoursZero(startDate, z), SetHoursZero(endDate, z), z)

\* the result is the message kind; "ok" stands for { valid: true }
validateBookingDates(startDate, endDate, clock, z) ==
    LET today == SetHoursZero(clock, z)
    IN  IF startDate < today THEN "past"
        ELSE IF endDate < startDate THEN "inverted"
        ELSE "ok"

\* An availability is [type, startDate, endDate, daysOfWeek]; an absent
\* Timestamp is <<>> and a present one <<t>>.  Type "none" stands for an item
\* without an availability field.
HasTs(ts) == Len(ts) > 0
ToDate(ts) == ts[1]

Availability(type, startDate, endDate, daysOfWeek) ==
    [type |-> type, startDate |-> startDate, endDate |-> endDate, daysOfWeek |-> daysOfWeek]

validateAvailability(availability, requestedStart, requestedEnd, z) ==
    IF availability.type = "always" THEN "ok"
    ELSE IF availability.type = "dateRange" THEN
        IF HasTs(availability.startDate) /\ requestedStart < ToDate(availability.startDate)
        THEN "before_window"
        ELSE IF HasTs(availability.endDate) /\ requestedEnd > ToDate(availability.endDate)
        THEN "after_window"
        ELSE "ok"
    ELSE IF availability.type = "recurring" THEN
        IF LocalDate(requestedStart, z) # LocalDate(requestedEnd, z) THEN "multi_day"
        ELSE IF GetDay(requestedStart, z) \notin availability.daysOfWeek THEN "wrong_day"
        ELSE "ok"
    ELSE "unknown_type"

checkItemAvailabilityWeekdayFirst(availability, startDate, endDate, z) ==
    IF availability.type = "recurring" THEN
        IF GetDay(startDate, z) \notin availability.daysOfWeek THEN "wrong_day"
        ELSE IF ISODate(startDate) # ISODate(endDate) THEN "multi_day"
        ELSE "ok"
    ELSE "ok"

\* the availability check written out inside submitBookingRequest
checkItemAvailability(availability, startDate, endDate, z) ==
    IF availability.type = "none" THEN "ok"
    ELSE IF availability.type = "dateRange" THEN
        IF /\ HasTs(availability.startDate)
           /\ DateOnly(startDate, z) < DateOnly(ToDate(availability.startDate), z)
        THEN "before_window"
        ELSE IF /\ HasTs(availability.endDate)
                /\ DateOnly(endDate, z) > DateOnly(ToDate(availability.endDate), z)
        THEN "after_window"
        ELSE "ok"
    ELSE IF availability.type = "recurring" THEN
        IF ISODate(startDate) # ISODate(endDate) THEN "multi_day"
        ELSE IF GetDay(startDate, z) \notin availability.daysOfWeek THEN "wrong_day"
        ELSE "ok"
    ELSE "ok"

(***************************************************************************)
(* The world of the model: three signed-in users, one listed item.         *)
(***************************************************************************)
Users == {"u1", "u2", "u3"}
ItemIds == {"i1"}
OwnerOf(i) == "u1"
TZs == {-5, 9}

FirstDay == <<2025, 6, 29>>     \* a Sunday, two days before a month boundary
Day(k) == CivilFromDays(DaysFromCivil(FirstDay) + k)
DateStrs == {Day(k) : k \in 0 .. NumDays - 1}
NoStr == <<>>                   \* an empty form field

\* the clock starts at 12:00Z of Day(1), which is Day(1) in every zone of TZs
TickHours == HoursPerDay \div 2
StartNow == DaysFromCivil(Day(1)) * HoursPerDay + TickHours

\* an optional value: <<>> is null, <<x>> is x
None == <<>>
Some(x) == <<x>>

(***************************************************************************)
(* itemManager.js: what a listing form stores as the availability.         *)
(* The result is <<>> when the form throws.                                *)
(***************************************************************************)
collectAvailabilityData(type, fromStr, untilStr, days, z) ==
    IF type = "always" THEN Some(Availability("always", None, None, {}))
    ELSE IF type = "dateRange" THEN
        LET startDate == IF fromStr # NoStr THEN Some(ParseLocalMidnight(fromStr, z)) ELSE None
            endDate   == IF untilStr # NoStr THEN Some(ParseLocalMidnight(untilStr, z)) ELSE None
        IN  IF HasTs(startDate) /\ HasTs(endDate) /\ ToDate(endDate) <= ToDate(startDate)
            THEN None
            ELSE Some(Availability("dateRange", startDate, endDate, {}))
    ELSE IF type = "recurring" THEN
        IF days = {} THEN None ELSE Some(Availability("recurring", None, None, days))
    ELSE None

\* the listings the owner may have created, in the owner's time zone
ListingForms(z) ==
    { collectAvailabilityData("always", NoStr, NoStr, {}, z),
      collectAvailabilityData("dateRange", Day(1), Day(NumDays - 1), {}, z),
      collectAvailabilityData("dateRange", NoStr, Day(1), {}, z),
      collectAvailabilityData("recurring", NoStr, NoStr, {GetDay(ParseLocalMidnight(Day(1), z), z)}, z) }

\* { id: itemDoc.id, ...itemDoc.data() }
ItemView(i, data) == [id |-> i, ownerId |-> data.ownerId, availability |-> data.availability]

(***************************************************************************)
(* bookingManager.js: submitBookingRequest                                 *)
(***************************************************************************)
\* the date and availability checks of a request
DateChecks(item, startDateStr, endDateStr, z) ==
    LET startDate == ParseLocalMidnight(startDateStr, z)
        endDate   == ParseLocalMidnight(endDateStr, z)
        dateValidation == validateBookingDates(startDate, endDate, now, z)
    IN  IF dateValidation # "ok" THEN dateValidation
        ELSE LET a == checkItemAvailability(item.availability, startDate, endDate, z)
             IN  IF a # "ok" THEN a ELSE "proceed"

SubmitChecksReadsFirst(u, startDateStr, endDateStr) ==
    IF currentItem[u] = None THEN "no_item"
    ELSE IF currentItem[u][1].ownerId = u THEN "own_item"
    ELSE IF startDateStr = NoStr \/ endDateStr = NoStr THEN "no_dates"
    ELSE "proceed"

SubmitChecksOwnerLast(u, startDateStr, endDateStr) ==
    IF currentItem[u] = None THEN "no_item"
    ELSE LET item == currentItem[u][1] IN
    IF startDateStr = NoStr \/ endDateStr = NoStr THEN "no_dates"
    ELSE LET r == DateChecks(item, startDateStr, endDateStr, tz[u])
         IN  IF r # "proceed" THEN r
             ELSE IF item.ownerId = u THEN "own_item" ELSE "proceed"

SubmitChecksPolicyFirst(u, startDateStr, endDateStr) ==
    IF currentItem[u] = None THEN "no_item"
    ELSE LET item == currentItem[u][1] IN
    IF item.ownerId = u THEN "own_item"
    ELSE IF startDateStr = NoStr \/ endDateStr = NoStr THEN "no_dates"
    ELSE LET startDate == ParseLocalMidnight(startDateStr, tz[u])
             endDate   == ParseLocalMidnight(endDateStr, tz[u])
             a == checkItemAvailability(item.availability, startDate, endDate, tz[u])
         IN  IF a # "ok" THEN a
             ELSE LET d == validateBookingDates(startDate, endDate, now, tz[u])
                  IN  IF d # "ok" THEN d ELSE "proceed"

\* The synchronous part, up to the lock reads: the alert it ends with, or
\* "proceed" when the reads are issued.
SubmitChecks(u, startDateStr, endDateStr) ==
    IF currentItem[u] = None THEN "no_item"
    ELSE LET item == currentItem[u][1] IN
    IF item.ownerId = u THEN "own_item"
    ELSE IF startDateStr = NoStr \/ endDateStr = NoStr THEN "no_dates"
    ELSE DateChecks(item, startDateStr, endDateStr, tz[u])

Keys(ids) == {ids[n] : n \in 1 .. Len(ids)}

\* the calendar dates from one date string to another, both included
DaysBetween(first, last) == {CivilFromDays(n) : n \in DaysFromCivil(first) .. DaysFromCivil(last)}

Request(u, startDateStr, endDateStr) ==
    LET item      == currentItem[u][1]
        startDate == ParseLocalMidnight(startDateStr, tz[u])
        endDate   == ParseLocalMidnight(endDateStr, tz[u])
        lockIds   == buildLockIds(item.id, startDate, endDate, tz[u])
    IN  [ item      |-> item,
          startStr  |-> startDateStr,
          endStr    |-> endDateStr,
          startDate |-> startDate,
          endDate   |-> endDate,
          lockIds   |-> lockIds,
          unread    |-> Keys(lockIds),      \* getDoc calls not yet answered
          existing  |-> {},                 \* snapshots that exist
          at        |-> 0,                  \* Timestamp.now(), taken after the reads
          today     |-> SetHoursZero(now, tz[u]),                      \* history
          dayLocked |-> \E d \in DaysBetween(startDateStr, endDateStr) :      \* history
                            LockId(item.id, d) \in DOMAIN bookingLocks,
          again     |-> \E b \in DOMAIN bookings :                            \* history
                            /\ bookings[b].renterId = u
                            /\ bookings[b].itemId = item.id
                            /\ bookings[b].startDate = startDate
                            /\ bookings[b].endDate = endDate,
          againLost |-> \E b \in lost :                                       \* history
                            /\ bookings[b].renterId = u
                            /\ bookings[b].itemId = item.id
                            /\ bookings[b].startDate = startDate
                            /\ bookings[b].endDate = endDate ]

Alert(u, kind) == [by |-> u, kind |-> kind]

AlertTextGeneric(kind) == "Invalid booking request"

\* the text of each alert, the dates and day names it names left out
AlertText(kind) ==
    CASE kind = "no_item"       -> "Item not found"
      [] kind = "own_item"      -> "You cannot book your own item."
      [] kind = "no_dates"      -> "Please select both start and end dates"
      [] kind = "past"          -> "Start date cannot be in the past"
      [] kind = "inverted"      -> "End date must be after start date"
      [] kind = "before_window" -> "Item is only available from"
      [] kind = "after_window"  -> "Item is only available until"
      [] kind = "multi_day"     -> "This item only allows same-day borrowing on: . Please select the same date for pickup and return."
      [] kind = "wrong_day"     -> "This item is only available on: . You selected:"
      [] kind = "conflict"      -> "Sorry, some of the dates you selected are already booked by others. Please choose different dates."
      [] kind = "failed"        -> "Failed to submit booking request. Please try again."
      [] kind = "success"       -> "Booking request submitted successfully!"
      [] OTHER                  -> ""

Submit(u, startDateStr, endDateStr) ==
    /\ pc[u] = "idle"
    /\ LET r == SubmitChecks(u, startDateStr, endDateStr) IN
       IF r = "proceed"
       THEN /\ pc' = [pc EXCEPT ![u] = "reading"]
            /\ req' = [req EXCEPT ![u] = Some(Request(u, startDateStr, endDateStr))]
            /\ UNCHANGED alert
       ELSE /\ alert' = Alert(u, r)
            /\ UNCHANGED <<pc, req>>
    /\ UNCHANGED <<now, tz, items, bookings, bookingLocks, currentItem, submitDay, lost, fin, fout, replay>>

\* One getDoc of the conflict check is answered.  When it is the last one,
LockReadHanging(u, id) ==
    /\ pc[u] = "reading"
    /\ id \in req[u][1].unread
    /\ LET r        == req[u][1]
           unread   == r.unread \ {id}
           existing == IF id \in DOMAIN bookingLocks THEN r.existing \cup {id} ELSE r.existing
       IN  IF unread # {}
           THEN /\ req' = [req EXCEPT ![u] = Some([r EXCEPT !.unread = unread, !.existing = existing])]
                /\ UNCHANGED <<pc, alert>>
           ELSE IF existing # {}
           THEN /\ pc' = [pc EXCEPT ![u] = "hung"]
                /\ req' = [req EXCEPT ![u] = Some([r EXCEPT !.unread = unread, !.existing = existing])]
                /\ UNCHANGED alert
           ELSE /\ pc' = [pc EXCEPT ![u] = "committing"]
                /\ req' = [req EXCEPT ![u] = Some([r EXCEPT !.unread = unread, !.at = now])]
                /\ UNCHANGED alert
    /\ UNCHANGED <<now, tz, items, bookings, bookingLocks, currentItem, submitDay, lost, fin, fout, replay>>

\* Promise.all resolves and the handler runs on to batch.commit().
LockRead(u, id) ==
    /\ pc[u] = "reading"
    /\ id \in req[u][1].unread
    /\ LET r        == req[u][1]
           unread   == r.unread \ {id}
           existing == IF id \in DOMAIN bookingLocks THEN r.existing \cup {id} ELSE r.existing
       IN  IF unread # {}
           THEN /\ req' = [req EXCEPT ![u] = Some([r EXCEPT !.unread = unread, !.existing = existing])]
                /\ UNCHANGED <<pc, alert>>
           ELSE IF existing # {}
           THEN /\ alert' = Alert(u, "conflict")
                /\ pc' = [pc EXCEPT ![u] = "idle"]
                /\ req' = [req EXCEPT ![u] = None]
           ELSE /\ pc' = [pc EXCEPT ![u] = "committing"]
                /\ req' = [req EXCEPT ![u] = Some([r EXCEPT !.unread = unread, !.at = now])]
                /\ UNCHANGED alert
    /\ UNCHANGED <<now, tz, items, bookings, bookingLocks, currentItem, submitDay, lost, fin, fout, replay>>

\* A getDoc rejects: Promise.all rejects and the catch block reports it.
ReadFail(u) ==
    /\ pc[u] = "reading"
    /\ alert' = Alert(u, "failed")
    /\ pc' = [pc EXCEPT ![u] = "idle"]
    /\ req' = [req EXCEPT ![u] = None]
    /\ UNCHANGED <<now, tz, items, bookings, bookingLocks, currentItem, submitDay, lost, fin, fout, replay>>

\* doc(collection('bookings')): a fresh document id
NewBookingId == Cardinality(DOMAIN bookings) + 1

BookingDoc(u, r) ==
    [ itemId        |-> r.item.id,
      renterId      |-> u,
      ownerId       |-> r.item.ownerId,
      startDate     |-> r.startDate,
      endDate       |-> r.endDate,
      status        |-> "pending",
      statusHistory |-> <<[status |-> "pending", at |-> r.at, by |-> u]>>,
      lockIds       |-> r.lockIds,
      createdAt     |-> now,
      updatedAt     |-> now ]

LockDoc(bookingId, r, id) ==
    [ bookingId |-> bookingId,
      itemId    |-> r.item.id,
      date      |-> id[2],
      ownerId   |-> r.item.ownerId,
      createdAt |-> now ]

\* The writes of a batch, applied together: set() creates or overwrites.
SetBooking(id, u, r) ==
    [k \in DOMAIN bookings \cup {id} |-> IF k = id THEN BookingDoc(u, r) ELSE bookings[k]]

SetLocksFirstOnly(id, r) ==
    [k \in DOMAIN bookingLocks \cup {r.lockIds[1]} |->
        IF k = r.lockIds[1] THEN LockDoc(id, r, k) ELSE bookingLocks[k]]

SetLocksSkipped(id, r) == bookingLocks

SetLocks(id, r) ==
    [k \in DOMAIN bookingLocks \cup Keys(r.lockIds) |->
        IF k \in Keys(r.lockIds) THEN LockDoc(id, r, k) ELSE bookingLocks[k]]

CommitIfAbsent(u) ==
    /\ pc[u] = "committing"
    /\ Cardinality(DOMAIN bookings) < MaxBookings
    /\ Keys(req[u][1].lockIds) \cap DOMAIN bookingLocks = {}
    /\ LET r  == req[u][1]
           id == NewBookingId
       IN  /\ bookings' = SetBooking(id, u, r)
           /\ bookingLocks' = SetLocks(id, r)
           /\ submitDay' = [k \in DOMAIN submitDay \cup {id} |->
                               IF k = id THEN r.today ELSE submitDay[k]]
    /\ alert' = Alert(u, "success")
    /\ pc' = [pc EXCEPT ![u] = "idle"]
    /\ req' = [req EXCEPT ![u] = None]
    /\ UNCHANGED <<now, tz, items, currentItem, lost, fin, fout, replay>>

\* batch.commit() is applied by the store and resolves.
Commit(u) ==
    /\ pc[u] = "committing"
    /\ Cardinality(DOMAIN bookings) < MaxBookings
    /\ LET r  == req[u][1]
           id == NewBookingId
       IN  /\ bookings' = SetBooking(id, u, r)
           /\ bookingLocks' = SetLocks(id, r)
           /\ submitDay' = [k \in DOMAIN submitDay \cup {id} |->
                               IF k = id THEN r.today ELSE submitDay[k]]
    /\ alert' = Alert(u, "success")
    /\ pc' = [pc EXCEPT ![u] = "idle"]
    /\ req' = [req EXCEPT ![u] = None]
    /\ UNCHANGED <<now, tz, items, currentItem, lost, fin, fout, replay>>

\* batch.commit() rejects although the store applied the batch (the
\* acknowledgement is lost): the catch block reports a failure.
CommitLost(u) ==
    /\ pc[u] = "committing"
    /\ Cardinality(DOMAIN bookings) < MaxBookings
    /\ LET r  == req[u][1]
           id == NewBookingId
       IN  /\ bookings' = SetBooking(id, u, r)
           /\ bookingLocks' = SetLocks(id, r)
           /\ submitDay' = [k \in DOMAIN submitDay \cup {id} |->
                               IF k = id THEN r.today ELSE submitDay[k]]
           /\ lost' = lost \cup {id}
    /\ alert' = Alert(u, "failed")
    /\ pc' = [pc EXCEPT ![u] = "idle"]
    /\ req' = [req EXCEPT ![u] = None]
    /\ UNCHANGED <<now, tz, items, currentItem, fin, fout, replay>>

\* batch.commit() rejects: nothing is written and the catch block reports it.
CommitFail(u) ==
    /\ pc[u] = "committing"
    /\ alert' = Alert(u, "failed")
    /\ pc' = [pc EXCEPT ![u] = "idle"]
    /\ req' = [req EXCEPT ![u] = None]
    /\ UNCHANGED <<now, tz, items, bookings, bookingLocks, currentItem, submitDay, lost, fin, fout, replay>>

(***************************************************************************)
(* itemRenderer.js: showItemDetail                                         *)
(***************************************************************************)
ShowItemDetail(u, i) ==
    /\ pc[u] = "idle"
    /\ currentItem' = [currentItem EXCEPT ![u] = Some(ItemView(i, items[i]))]
    /\ UNCHANGED <<now, tz, items, bookings, bookingLocks, pc, req, alert, submitDay, lost, fin, fout, replay>>

(***************************************************************************)
(* itemManager.js: handleBookingAction                                     *)
(***************************************************************************)
\* arrayUnion(e): appends e unless an equal element is already there
arrayUnion(seq, e) ==
    IF \E n \in 1 .. Len(seq) : seq[n] = e THEN seq ELSE Append(seq, e)

handleBookingActionReleasing(u, bookingId, newStatus) ==
    /\ newStatus \in {"accepted", "declined"}
    /\ bookingId \in DOMAIN bookings
    /\ bookings' = [bookings EXCEPT ![bookingId] =
            [@ EXCEPT !.status = newStatus,
                      !.statusHistory = arrayUnion(@, [status |-> newStatus, at |-> now, by |-> u]),
                      !.lockIds = IF newStatus = "declined" THEN <<>> ELSE @,
                      !.updatedAt = now]]
    /\ bookingLocks' =
           [k \in DOMAIN bookingLocks \
                  (IF newStatus = "declined" THEN Keys(bookings[bookingId].lockIds) ELSE {}) |->
               bookingLocks[k]]
    /\ UNCHANGED <<now, tz, items, currentItem, pc, req, alert, submitDay, lost, fin, fout, replay>>

handleBookingAction(u, bookingId, newStatus) ==
    /\ newStatus \in {"accepted", "declined"}
    /\ bookingId \in DOMAIN bookings
    /\ bookings' = [bookings EXCEPT ![bookingId] =
            [@ EXCEPT !.status = newStatus,
                      !.statusHistory = arrayUnion(@, [status |-> newStatus, at |-> now, by |-> u]),
                      !.updatedAt = now]]
    /\ UNCHANGED <<now, tz, items, bookingLocks, currentItem, pc, req, alert, submitDay, lost, fin, fout, replay>>

(***************************************************************************)
(* itemManager.js: loadMyBookings and loadOwnerBookings.  The groups are    *)
(* kept as sets of booking ids; the order inside a group is not modelled.   *)
(***************************************************************************)
ViewBuckets == {"pending", "accepted", "declined", "archived"}

\* booking.status of a stored document: undefined when the document has no
\* status field; undefined is falsy, as the empty string is
StatusOf(doc) == IF "status" \in DOMAIN doc THEN doc.status ELSE ""

NormalizedStatusAsStored(status) == status

\* booking.status === 'confirmed' ? 'accepted' : booking.status, then || 'pending'
NormalizedStatus(status) ==
    LET normalized == IF status = "confirmed" THEN "accepted" ELSE status
    IN  IF normalized = "" THEN "pending" ELSE normalized

\* the group loadMyBookings pushes a booking to; a status that names no group
\* is pushed nowhere
MyBookingsGroup(b) == NormalizedStatus(StatusOf(bookings[b]))

\* the group loadOwnerBookings pushes a booking to, "today" being the viewer's
OwnerBookingsGroup(b, today) ==
    LET status == NormalizedStatus(StatusOf(bookings[b]))
    IN  IF status \in {"accepted", "pending"} /\ bookings[b].endDate < today THEN "archived"
        ELSE IF status \in ViewBuckets THEN status
        ELSE "archived"

loadMyBookings(u) ==
    /\ fout' = Some([view   |-> "renter",
                     by     |-> u,
                     groups |-> [g \in ViewBuckets |->
                                   {b \in DOMAIN bookings :
                                       bookings[b].renterId = u /\ MyBookingsGroup(b) = g}]])
    /\ UNCHANGED <<now, tz, items, bookings, bookingLocks, currentItem, pc, req, alert, submitDay, lost, fin, replay>>

loadOwnerBookingsArchiving(u) ==
    LET archived == {b \in DOMAIN bookings :
                        /\ bookings[b].ownerId = u
                        /\ OwnerBookingsGroup(b, SetHoursZero(now, tz[u])) = "archived"}
    IN  /\ fout' = Some([view   |-> "owner",
                         by     |-> u,
                         groups |-> [g \in ViewBuckets |->
                                       {b \in DOMAIN bookings :
                                           /\ bookings[b].ownerId = u
                                           /\ OwnerBookingsGroup(b, SetHoursZero(now, tz[u])) = g}]])
        /\ bookings' = [b \in DOMAIN bookings |->
                          IF b \in archived THEN [bookings[b] EXCEPT !.status = "archived"]
                          ELSE bookings[b]]
        /\ UNCHANGED <<now, tz, items, bookingLocks, currentItem, pc, req, alert, submitDay, lost, fin, replay>>

loadOwnerBookings(u) ==
    /\ fout' = Some([view   |-> "owner",
                     by     |-> u,
                     groups |-> [g \in ViewBuckets |->
                                   {b \in DOMAIN bookings :
                                       /\ bookings[b].ownerId = u
                                       /\ OwnerBookingsGroup(b, SetHoursZero(now, tz[u])) = g}]])
    /\ UNCHANGED <<now, tz, items, bookings, bookingLocks, currentItem, pc, req, alert, submitDay, lost, fin, replay>>

(***************************************************************************)
(* sessionReplay.js: the playback of a recorded session.  The events are   *)
(* kept by their number; a timeout may fire at any time after it is set.   *)
(***************************************************************************)
\* no session loaded
ReplayIdle ==
    [ currentPlaybackEvents |-> 0,
      playbackIndex         |-> 0,
      isPlaying             |-> FALSE,
      playbackInterval      |-> None,
      playbackSpeed         |-> 1,
      timers                |-> {},
      playBtnDisabled       |-> TRUE,
      pauseBtnDisabled      |-> TRUE ]

\* after loadSessionForPlayback has loaded a session of n events
ReplayLoaded(n) ==
    [ currentPlaybackEvents |-> n,
      playbackIndex         |-> 0,
      isPlaying             |-> FALSE,
      playbackInterval      |-> None,
      playbackSpeed         |-> 1,
      timers                |-> {},
      playBtnDisabled       |-> FALSE,
      pauseBtnDisabled      |-> TRUE ]

\* the handle setTimeout returns: one that names no pending timeout and is
\* not the handle the store still holds
NewTimer(r) ==
    CHOOSE t \in 1 .. Cardinality(r.timers) + 2 :
        /\ t \notin r.timers
        /\ r.playbackInterval # Some(t)
        /\ \A t2 \in 1 .. t - 1 : t2 \in r.timers \/ r.playbackInterval = Some(t2)

\* pauseSession, as a change of the replay state
Paused(r) ==
    [r EXCEPT !.isPlaying = FALSE,
              !.timers = IF r.playbackInterval # None THEN @ \ {r.playbackInterval[1]} ELSE @,
              !.playbackInterval = None,
              !.playBtnDisabled = FALSE,
              !.pauseBtnDisabled = TRUE]

\* playNextEvent up to its setTimeout call
playNextEvent(r) ==
    IF ~ r.isPlaying \/ r.playbackIndex >= r.currentPlaybackEvents - 1
    THEN Paused(r)
    ELSE [r EXCEPT !.timers = @ \cup {NewTimer(r)}, !.playbackInterval = Some(NewTimer(r))]

\* a click on the play button
playSession ==
    /\ ~ replay.playBtnDisabled
    /\ replay' = playNextEvent([replay EXCEPT !.isPlaying = TRUE,
                                              !.playBtnDisabled = TRUE,
                                              !.pauseBtnDisabled = FALSE])
    /\ UNCHANGED <<now, tz, items, bookings, bookingLocks, currentItem, pc, req, alert, submitDay, lost, fin, fout>>

\* a click on the pause button
pauseSession ==
    /\ ~ replay.pauseBtnDisabled
    /\ replay' = Paused(replay)
    /\ UNCHANGED <<now, tz, items, bookings, bookingLocks, currentItem, pc, req, alert, submitDay, lost, fin, fout>>

\* a click on the reset button
resetSession ==
    /\ replay.currentPlaybackEvents > 0
    /\ replay' = [Paused(replay) EXCEPT !.playbackIndex = 0]
    /\ UNCHANGED <<now, tz, items, bookings, bookingLocks, currentItem, pc, req, alert, submitDay, lost, fin, fout>>

\* a click on an entry of the events list or on a timeline marker
jumpToEvent(index) ==
    /\ index \in 0 .. replay.currentPlaybackEvents - 1
    /\ replay' = [replay EXCEPT !.playbackIndex = index]
    /\ UNCHANGED <<now, tz, items, bookings, bookingLocks, currentItem, pc, req, alert, submitDay, lost, fin, fout>>

\* an input event of the timeline scrubber, whose range is 0 .. length - 1
scrubberInput(index) ==
    /\ index \in 0 .. replay.currentPlaybackEvents - 1
    /\ replay' = [Paused(replay) EXCEPT !.playbackIndex = index]
    /\ UNCHANGED <<now, tz, items, bookings, bookingLocks, currentItem, pc, req, alert, submitDay, lost, fin, fout>>

\* the speeds of the speed buttons
Speeds == {1, 2, 4}

\* a click on a speed button
setPlaybackSpeed(speed) ==
    /\ replay.currentPlaybackEvents > 0
    /\ replay' = [replay EXCEPT !.playbackSpeed = speed]
    /\ UNCHANGED <<now, tz, items, bookings, bookingLocks, currentItem, pc, req, alert, submitDay, lost, fin, fout>>

\* the callback of a pending timeout runs
timerFire(t) ==
    /\ t \in replay.timers
    /\ replay' = playNextEvent([replay EXCEPT !.timers = @ \ {t},
                                              !.playbackIndex = @ + 1])
    /\ UNCHANGED <<now, tz, items, bookings, bookingLocks, currentItem, pc, req, alert, submitDay, lost, fin, fout>>

(***************************************************************************)
(* The clock.                                                              *)
(***************************************************************************)
Tick ==
    /\ now < StartNow + MaxTicks * TickHours
    /\ now' = now + TickHours
    /\ UNCHANGED <<tz, items, bookings, bookingLocks, currentItem, pc, req, alert, submitDay, lost, fin, fout, replay>>

(***************************************************************************)
(* The specification of the reservation protocol.                          *)
(***************************************************************************)
\* Every session has the item's detail view open.
Sessions(listing) ==
    /\ items = [i \in ItemIds |-> [ownerId |-> OwnerOf(i), availability |-> listing]]
    /\ currentItem = [u \in Users |-> Some(ItemView("i1", items["i1"]))]
    /\ bookings = <<>>
    /\ bookingLocks = <<>>
    /\ pc = [u \in Users |-> "idle"]
    /\ req = [u \in Users |-> None]
    /\ alert = Alert("u1", "none")
    /\ submitDay = <<>>
    /\ lost = {}
    /\ replay = ReplayIdle

\* The renters sit in any zones; the item is always available.
Init ==
    /\ now = StartNow
    /\ tz \in {f \in [Users -> TZs] : f[OwnerOf("i1")] = -5}
    /\ Sessions(collectAvailabilityData("always", NoStr, NoStr, {}, tz[OwnerOf("i1")])[1])
    /\ fin = None
    /\ fout = None

Next ==
    \/ \E u \in Users, s \in DateStrs \cup {NoStr}, e \in DateStrs \cup {NoStr} : Submit(u, s, e)
    \/ \E u \in Users : \E id \in (IF pc[u] = "reading" THEN req[u][1].unread ELSE {}) : LockRead(u, id)
    \/ \E u \in Users : ReadFail(u)
    \/ \E u \in Users : Commit(u)
    \/ \E u \in Users : CommitFail(u)
    \/ \E u \in Users, i \in ItemIds : ShowItemDetail(u, i)
    \/ \E b \in DOMAIN bookings, st \in {"accepted", "declined"} :
          /\ Len(bookings[b].statusHistory) < MaxHistory
          /\ handleBookingAction(bookings[b].ownerId, b, st)

Spec == Init /\ [][Next]_vars

(***************************************************************************)
(* One renter, and the owner, against every kind of listing, with the clock *)
(* running.                                                                *)
(***************************************************************************)
\* testDataGenerator.js: a generated dateRange listing, an offset being
\* <<>> (null) or <<days>>; getDaysFromNow keeps the time of day.
getDaysFromNow(days, clock) == IF days = None THEN None ELSE Some(clock + days[1] * HoursPerDay)

generateFakeListingsData(startDateOffset, endDateOffset, clock) ==
    Availability("dateRange", getDaysFromNow(startDateOffset, clock),
                 getDaysFromNow(endDateOffset, clock), {})

\* the seed's offsets: a window from today, and one from tomorrow
GeneratedListings(clock) ==
    { generateFakeListingsData(Some(0), Some(NumDays - 2), clock),
      generateFakeListingsData(Some(1), None, clock) }

PolicyListings(z) ==
    {f[1] : f \in ListingForms(z) \ {None}} \cup GeneratedListings(StartNow)

Renter == "u2"

InitPolicy ==
    /\ now = StartNow
    /\ tz \in {f \in [Users -> TZs] : f["u3"] = -5}
    /\ \E l \in PolicyListings(tz[OwnerOf("i1")]) : Sessions(l)
    /\ fin = None
    /\ fout = None

NextPolicy ==
    \/ \E s \in DateStrs \cup {NoStr}, e \in DateStrs \cup {NoStr} : Submit(Renter, s, e)
    \/ \E s \in DateStrs \cup {NoStr}, e \in DateStrs \cup {NoStr} : Submit(OwnerOf("i1"), s, e)
    \/ \E id \in (IF pc[Renter] = "reading" THEN req[Renter][1].unread ELSE {}) : LockRead(Renter, id)
    \/ ReadFail(Renter)
    \/ Commit(Renter)
    \/ CommitFail(Renter)
    \/ Tick

SpecPolicy == InitPolicy /\ [][NextPolicy]_vars

(***************************************************************************)
(* The life of a booking: one renter submits, and any signed-in user calls *)
(* handleBookingAction.                                                    *)
(***************************************************************************)
InitLifecycle ==
    /\ now = StartNow
    /\ tz \in {f \in [Users -> TZs] : f[OwnerOf("i1")] = -5 /\ f["u3"] = -5}
    /\ Sessions(collectAvailabilityData("always", NoStr, NoStr, {}, tz[OwnerOf("i1")])[1])
    /\ fin = None
    /\ fout = None

NextLifecycle ==
    \/ \E s \in DateStrs, e \in DateStrs : Submit(Renter, s, e)
    \/ \E id \in (IF pc[Renter] = "reading" THEN req[Renter][1].unread ELSE {}) : LockRead(Renter, id)
    \/ Commit(Renter)
    \/ \E u \in Users, b \in DOMAIN bookings, st \in {"accepted", "declined"} :
          /\ Len(bookings[b].statusHistory) <= MaxActions
          /\ handleBookingAction(u, b, st)

SpecLifecycle == InitLifecycle /\ [][NextLifecycle]_vars

(***************************************************************************)
(* Re-submission: one renter submits again and again, the reads and the    *)
(* commit may fail, and a commit may be applied without its                *)
(* acknowledgement reaching the caller.                                    *)
(***************************************************************************)
InitRetry ==
    /\ now = StartNow
    /\ tz \in {f \in [Users -> TZs] : f[OwnerOf("i1")] = -5 /\ f["u3"] = -5}
    /\ Sessions(collectAvailabilityData("always", NoStr, NoStr, {}, tz[OwnerOf("i1")])[1])
    /\ fin = None
    /\ fout = None

NextRetry ==
    \/ \E s \in DateStrs, e \in DateStrs : Submit(Renter, s, e)
    \/ \E id \in (IF pc[Renter] = "reading" THEN req[Renter][1].unread ELSE {}) : LockRead(Renter, id)
    \/ ReadFail(Renter)
    \/ Commit(Renter)
    \/ CommitLost(Renter)
    \/ CommitFail(Renter)
    \/ Tick

SpecRetry == InitRetry /\ [][NextRetry]_vars

\* The same, the store answering every getDoc and every batch.commit(), with
\* a result or with an error.
SpecAnswered ==
    /\ InitRetry
    /\ [][NextRetry]_vars
    /\ WF_vars(\/ \E id \in (IF pc[Renter] = "reading" THEN req[Renter][1].unread ELSE {}) : LockRead(Renter, id)
               \/ ReadFail(Renter))
    /\ WF_vars(Commit(Renter) \/ CommitLost(Renter) \/ CommitFail(Renter))

(***************************************************************************)
(* The dashboards: one renter submits, the owner accepts or declines, the  *)
(* clock runs, and each of them loads their bookings.  All sessions are in *)
(* one time zone.                                                          *)
(***************************************************************************)
InitViews ==
    /\ now = StartNow
    /\ tz \in {[u \in Users |-> z] : z \in TZs}
    /\ Sessions(collectAvailabilityData("always", NoStr, NoStr, {}, tz[OwnerOf("i1")])[1])
    /\ fin = None
    /\ fout = None

NextViews ==
    \/ \E s \in DateStrs, e \in DateStrs : Submit(Renter, s, e)
    \/ \E id \in (IF pc[Renter] = "reading" THEN req[Renter][1].unread ELSE {}) : LockRead(Renter, id)
    \/ Commit(Renter)
    \/ \E b \in DOMAIN bookings, st \in {"accepted", "declined"} :
          /\ Len(bookings[b].statusHistory) < MaxHistory
          /\ handleBookingAction(bookings[b].ownerId, b, st)
    \/ Tick
    \/ loadMyBookings(Renter)
    \/ loadOwnerBookings(OwnerOf("i1"))

SpecViews == InitViews /\ [][NextViews]_vars

(***************************************************************************)
(* The owner's dashboards: one renter books single days, and the owner     *)
(* accepts and declines from views that may show a status no longer stored, *)
(* while the clock runs.                                                   *)
(***************************************************************************)
NextStale ==
    \/ \E s \in DateStrs : Submit(Renter, s, s)
    \/ \E id \in (IF pc[Renter] = "reading" THEN req[Renter][1].unread ELSE {}) : LockRead(Renter, id)
    \/ Commit(Renter)
    \/ \E b \in DOMAIN bookings, st \in {"accepted", "declined"} :
          /\ Len(bookings[b].statusHistory) <= MaxOwnerActions
          /\ handleBookingAction(bookings[b].ownerId, b, st)
    \/ Tick

SpecStale == InitViews /\ [][NextStale]_vars

(***************************************************************************)
(* The dashboards over bookings stored by earlier versions of the          *)
(* application: the status is today's, the label confirmed, or missing.    *)
(***************************************************************************)
LegacyStatuses == {"", "confirmed", "pending", "accepted", "declined"}

\* a stored booking of the renter for the day k; "" is a missing status field
LegacyDoc(status, k, z) ==
    LET day  == ParseLocalMidnight(Day(k), z)
        core == [ itemId    |-> "i1",
                  renterId  |-> Renter,
                  ownerId   |-> OwnerOf("i1"),
                  startDate |-> day,
                  endDate   |-> day,
                  createdAt |-> 0 ]
    IN  IF status = "" THEN core
        ELSE [f \in DOMAIN core \cup {"status"} |-> IF f = "status" THEN status ELSE core[f]]

InitLegacy ==
    /\ now = StartNow
    /\ tz \in {[u \in Users |-> z] : z \in TZs}
    /\ items = [i \in ItemIds |->
                  [ownerId |-> OwnerOf(i),
                   availability |-> collectAvailabilityData("always", NoStr, NoStr, {}, tz[OwnerOf(i)])[1]]]
    /\ currentItem = [u \in Users |-> None]
    /\ \E s1 \in LegacyStatuses, s2 \in LegacyStatuses, k1 \in 0 .. NumDays - 1, k2 \in 0 .. NumDays - 1 :
          bookings = <<LegacyDoc(s1, k1, tz[Renter]), LegacyDoc(s2, k2, tz[Renter])>>
    /\ bookingLocks = <<>>
    /\ pc = [u \in Users |-> "idle"]
    /\ req = [u \in Users |-> None]
    /\ alert = Alert("u1", "none")
    /\ submitDay = <<>>
    /\ lost = {}
    /\ replay = ReplayIdle
    /\ fin = None
    /\ fout = None

NextLegacy ==
    \/ loadMyBookings(Renter)
    \/ loadOwnerBookings(OwnerOf("i1"))
    \/ Tick

SpecLegacy == InitLegacy /\ [][NextLegacy]_vars

(***************************************************************************)
(* itemManager.js: updateListing.  The owner edits the availability of a   *)
(* listing while a renter has its detail view open.                        *)
(***************************************************************************)
\* what the edit form holds: <<type, from, until, days>>
EditForms(z) ==
    { <<"always", NoStr, NoStr, {}>>,
      <<"dateRange", Day(NumDays - 1), NoStr, {}>>,
      <<"dateRange", Day(NumDays - 1), Day(1), {}>>,
      <<"recurring", NoStr, NoStr, {GetDay(ParseLocalMidnight(Day(0), z), z)}>> }

updateListing(u, i, form) ==
    /\ LET availability == collectAvailabilityData(form[1], form[2], form[3], form[4], tz[u])
       IN  IF availability = None
           THEN /\ alert' = Alert(u, "listing_error")
                /\ UNCHANGED items
           ELSE /\ items' = [items EXCEPT ![i].availability = availability[1]]
                /\ alert' = Alert(u, "listing_updated")
    /\ UNCHANGED <<now, tz, bookings, bookingLocks, currentItem, pc, req, submitDay, lost, fin, fout, replay>>

InitUpdate ==
    /\ now = StartNow
    /\ tz \in {[u \in Users |-> z] : z \in TZs}
    /\ \E l \in {f[1] : f \in ListingForms(tz[OwnerOf("i1")]) \ {None}} : Sessions(l)
    /\ fin = None
    /\ fout = None

NextUpdate ==
    \/ \E s \in DateStrs, e \in DateStrs : Submit(Renter, s, e)
    \/ \E id \in (IF pc[Renter] = "reading" THEN req[Renter][1].unread ELSE {}) : LockRead(Renter, id)
    \/ Commit(Renter)
    \/ ShowItemDetail(Renter, "i1")
    \/ \E form \in EditForms(tz[OwnerOf("i1")]) : updateListing(OwnerOf("i1"), "i1", form)

SpecUpdate == InitUpdate /\ [][NextUpdate]_vars

(***************************************************************************)
(* The playback of a loaded session.                                       *)
(***************************************************************************)
InitReplay ==
    /\ now = StartNow
    /\ tz = [u \in Users |-> -5]
    /\ items = [i \in ItemIds |->
                  [ownerId |-> OwnerOf(i),
                   availability |-> collectAvailabilityData("always", NoStr, NoStr, {}, tz[OwnerOf(i)])[1]]]
    /\ currentItem = [u \in Users |-> None]
    /\ bookings = <<>>
    /\ bookingLocks = <<>>
    /\ pc = [u \in Users |-> "idle"]
    /\ req = [u \in Users |-> None]
    /\ alert = Alert("u1", "none")
    /\ submitDay = <<>>
    /\ lost = {}
    /\ fin = None
    /\ fout = None
    /\ replay \in {ReplayLoaded(n) : n \in 1 .. MaxEvents}

NextReplay ==
    \/ playSession
    \/ pauseSession
    \/ resetSession
    \/ \E index \in 0 .. MaxEvents - 1 : jumpToEvent(index)
    \/ \E index \in 0 .. MaxEvents - 1 : scrubberInput(index)
    \/ \E speed \in Speeds : setPlaybackSpeed(speed)
    \/ \E t \in replay.timers : timerFire(t)

SpecReplay == InitReplay /\ [][NextReplay]_vars

(***************************************************************************)
(* The validators of firebaseService.js and the check written out in       *)
(* submitBookingRequest, applied to inputs.                                *)
(***************************************************************************)
EvalTZs == TZs \cup {0}

\* the whole-hour UTC offsets a browser can have
Offsets == -12 .. 14

\* buildLockIds as submitBookingRequest calls it
KeyInputs ==
    { [kind |-> "keys", itemId |-> i, startStr |-> s, endStr |-> e, z |-> z] :
        i \in ItemIds, s \in DateStrs, e \in DateStrs, z \in Offsets }

\* a dateRange policy as stored by the form or by the generator, and a
\* candidate range, the owner and the renter sharing the zone z
WindowsIn(z) ==
    {f[1] : f \in {collectAvailabilityData("dateRange", a, b, {}, z) :
                      a \in DateStrs \cup {NoStr}, b \in DateStrs \cup {NoStr}} \ {None}}
        \cup GeneratedListings(StartNow)

PolicyInputs ==
    UNION { { [kind |-> "policy", availability |-> a, startStr |-> s, endStr |-> e, z |-> z] :
                a \in WindowsIn(z), s \in DateStrs, e \in DateStrs } : z \in EvalTZs }

\* a recurring policy as stored by the form, and a candidate range
WeekdaySets == SUBSET {GetDay(ParseLocalMidnight(Day(k), 0), 0) : k \in 0 .. NumDays - 1} \ {{}}

RecurringInputs ==
    { [kind |-> "recurring", availability |-> collectAvailabilityData("recurring", NoStr, NoStr, days, z)[1],
       startStr |-> s, endStr |-> e, z |-> z] :
        days \in WeekdaySets, s \in DateStrs, e \in DateStrs, z \in EvalTZs }

\* an item stored without an availability field, or with a type the
\* application does not know, and a candidate range
UntypedInputs ==
    { [kind |-> "untyped", availability |-> Availability(t, None, None, {}),
       startStr |-> s, endStr |-> e, z |-> z] :
        t \in {"none", "weekly"}, s \in DateStrs, e \in DateStrs, z \in EvalTZs }

InitEval ==
    /\ now = StartNow
    /\ tz = [u \in Users |-> -5]
    /\ Sessions(collectAvailabilityData("always", NoStr, NoStr, {}, tz[OwnerOf("i1")])[1])
    /\ fin \in {Some(x) : x \in KeyInputs \cup PolicyInputs \cup RecurringInputs \cup UntypedInputs}
    /\ fout = None

EvalBuildLockIds ==
    /\ fout = None
    /\ fin[1].kind = "keys"
    /\ fout' = Some(buildLockIds(fin[1].itemId,
                                 ParseLocalMidnight(fin[1].startStr, fin[1].z),
                                 ParseLocalMidnight(fin[1].endStr, fin[1].z), fin[1].z))
    /\ UNCHANGED <<now, tz, items, bookings, bookingLocks, currentItem, pc, req, alert, submitDay, lost, fin, replay>>

EvalAvailability ==
    /\ fout = None
    /\ fin[1].kind = "policy"
    /\ LET requestedStart == ParseLocalMidnight(fin[1].startStr, fin[1].z)
           requestedEnd   == ParseLocalMidnight(fin[1].endStr, fin[1].z)
       IN  fout' = Some([validated |-> validateAvailability(fin[1].availability, requestedStart,
                                                            requestedEnd, fin[1].z),
                         checked   |-> checkItemAvailability(fin[1].availability, requestedStart,
                                                             requestedEnd, fin[1].z)])
    /\ UNCHANGED <<now, tz, items, bookings, bookingLocks, currentItem, pc, req, alert, submitDay, lost, fin, replay>>

EvalRecurring ==
    /\ fout = None
    /\ fin[1].kind = "recurring"
    /\ LET requestedStart == ParseLocalMidnight(fin[1].startStr, fin[1].z)
           requestedEnd   == ParseLocalMidnight(fin[1].endStr, fin[1].z)
       IN  fout' = Some([validated |-> validateAvailability(fin[1].availability, requestedStart,
                                                            requestedEnd, fin[1].z),
                         checked   |-> checkItemAvailability(fin[1].availability, requestedStart,
                                                             requestedEnd, fin[1].z)])
    /\ UNCHANGED <<now, tz, items, bookings, bookingLocks, currentItem, pc, req, alert, submitDay, lost, fin, replay>>

EvalUntyped ==
    /\ fout = None
    /\ fin[1].kind = "untyped"
    /\ LET requestedStart == ParseLocalMidnight(fin[1].startStr, fin[1].z)
           requestedEnd   == ParseLocalMidnight(fin[1].endStr, fin[1].z)
       IN  fout' = Some([validated |-> validateAvailability(fin[1].availability, requestedStart,
                                                            requestedEnd, fin[1].z),
                         checked   |-> checkItemAvailability(fin[1].availability, requestedStart,
                                                             requestedEnd, fin[1].z)])
    /\ UNCHANGED <<now, tz, items, bookings, bookingLocks, currentItem, pc, req, alert, submitDay, lost, fin, replay>>

NextEval == EvalBuildLockIds \/ EvalAvailability \/ EvalRecurring \/ EvalUntyped

SpecEval == InitEval /\ [][NextEval]_vars

(***************************************************************************)
(* Claims about the reservation protocol.                                  *)
(***************************************************************************)
Active(b) == bookings[b].status \in {"pending", "accepted"}
Claims(b, k) == k \in Keys(bookings[b].lockIds)

\* the calendar days a stored booking was requested for, in its renter's zone
BookedDays(b) ==
    DaysBetween(LocalDate(bookings[b].startDate, tz[bookings[b].renterId]),
                LocalDate(bookings[b].endDate, tz[bookings[b].renterId]))

\* C1: for every (item, calendar date) at most one lock is held by a booking
\* that is pending or accepted: no two such bookings own the same lock key.
C1_OneLiveLockPerDay ==
    \A b1 \in DOMAIN bookings, b2 \in DOMAIN bookings :
        (b1 # b2 /\ Active(b1) /\ Active(b2)) =>
            ~ \E k \in Keys(bookings[b1].lockIds) : Claims(b2, k)

\* C2: of two submissions by different renters for the same item whose
\* ranges share a day, at most one ends with a stored booking that holds the
\* lock of a shared day.
C2_AtMostOneSubmitSucceeds ==
    \A b1 \in DOMAIN bookings, b2 \in DOMAIN bookings :
        ( /\ bookings[b1].renterId # bookings[b2].renterId
          /\ bookings[b1].itemId = bookings[b2].itemId
          /\ \E d \in BookedDays(b1) \cap BookedDays(b2) :
                Claims(b1, LockId(bookings[b1].itemId, d)) /\ Claims(b2, LockId(bookings[b2].itemId, d)) )
        => b1 = b2

\* C3: a commit is all or nothing.  Every stored booking has a lock record
\* under each of its lockIds, every lock record names a stored booking that
\* lists its key, and a step that reports a failed commit writes nothing.
C3_Stored ==
    /\ \A b \in DOMAIN bookings : Keys(bookings[b].lockIds) \subseteq DOMAIN bookingLocks
    /\ \A k \in DOMAIN bookingLocks :
          /\ bookingLocks[k].bookingId \in DOMAIN bookings
          /\ Claims(bookingLocks[k].bookingId, k)

C3_FailedWritesNothing ==
    \A u \in Users :
        (pc[u] = "committing" /\ pc'[u] = "idle" /\ alert' = Alert(u, "failed"))
            => (bookings' = bookings /\ bookingLocks' = bookingLocks)

C4_LockIdsAreTheBookedDays ==
    \A b \in DOMAIN bookings :
        /\ Keys(bookings[b].lockIds) = {LockId(bookings[b].itemId, d) : d \in BookedDays(b)}
        /\ Len(bookings[b].lockIds) = Cardinality(BookedDays(b))

\* C6: a request for a range of which some day already has a lock record
\* never passes the conflict check.
C6_LockedDayIsRejected ==
    \A u \in Users : pc[u] = "committing" => ~ req[u][1].dayLocked

\* C7: a successful submit for n days stores one new booking, pending, with
\* the single history entry (pending, by the renter), and n new lock records,
\* one for each day of the range, each naming the new booking.
C7_Success(u) ==
    LET r    == req[u][1]
        days == DaysBetween(r.startStr, r.endStr)
        new  == DOMAIN bookings' \ DOMAIN bookings
    IN  /\ Cardinality(new) = 1
        /\ \A b \in new :
              /\ bookings'[b].status = "pending"
              /\ Len(bookings'[b].statusHistory) = 1
              /\ bookings'[b].statusHistory[1].status = "pending"
              /\ bookings'[b].statusHistory[1].by = u
              /\ DOMAIN bookingLocks' \ DOMAIN bookingLocks = {LockId(r.item.id, d) : d \in days}
              /\ \A d \in days : bookingLocks'[LockId(r.item.id, d)].bookingId = b

C7_SuccessfulSubmitStores ==
    [][\A u \in Users :
          (pc[u] = "committing" /\ pc'[u] = "idle" /\ alert' = Alert(u, "success"))
              => C7_Success(u)]_vars

\* C8: a submit by the owner of the item is rejected as such, before any date
\* check, lock read or write, and no booking has its owner as its renter.
OwnsCurrentItem(u) == currentItem[u] # None /\ currentItem[u][1].ownerId = u

C8_State ==
    /\ \A b \in DOMAIN bookings : bookings[b].renterId # bookings[b].ownerId
    /\ \A u \in Users : OwnsCurrentItem(u) => pc[u] = "idle"
    /\ \A u \in Users, s \in DateStrs \cup {NoStr}, e \in DateStrs \cup {NoStr} :
          OwnsCurrentItem(u) => SubmitChecks(u, s, e) = "own_item"

C8_Step ==
    \A u \in Users :
        (OwnsCurrentItem(u) /\ alert' # alert /\ alert'.by = u)
            => /\ alert'.kind = "own_item"
               /\ UNCHANGED <<bookings, bookingLocks, pc, req>>

C8_OwnerNeverBooks == [](C8_State) /\ [][C8_Step]_vars

C8_Witness == alert = Alert("u1", "own_item") /\ OwnsCurrentItem("u1")

\* C5: for start <= end, buildLockIds gives one key per calendar day, in
\* ascending date order, the first for the start date and the last for the
\* end date, across a month boundary too.
C5_KeysOfRange ==
    (fin # None /\ fout # None /\ fin[1].kind = "keys" /\ DateLeq(fin[1].startStr, fin[1].endStr))
        => LET ids == fout[1]
               i   == fin[1].itemId
           IN  /\ Len(ids) = DaysFromCivil(fin[1].endStr) - DaysFromCivil(fin[1].startStr) + 1
               /\ ids[1] = LockId(i, fin[1].startStr)
               /\ ids[Len(ids)] = LockId(i, fin[1].endStr)
               /\ \A n \in 1 .. Len(ids) - 1 : DateLess(ids[n][2], ids[n + 1][2])
               /\ Keys(ids) = {LockId(i, d) : d \in DaysBetween(fin[1].startStr, fin[1].endStr)}

\* C9: a request that starts before today, or ends before it starts, is
\* rejected by the range check whatever the item's policy would say, and no
\* stored booking ends before it starts or starts before its submission day.
C9_State ==
    /\ \A b \in DOMAIN bookings :
          LET z == tz[bookings[b].renterId]
          IN  /\ bookings[b].endDate >= bookings[b].startDate
              /\ DateLeq(LocalDate(submitDay[b], z), LocalDate(bookings[b].startDate, z))
    /\ \A u \in Users \ {OwnerOf("i1")}, s \in DateStrs, e \in DateStrs :
          LET today == LocalDate(now, tz[u])
          IN  /\ DateLess(s, today) => SubmitChecks(u, s, e) = "past"
              /\ (~ DateLess(s, today) /\ DateLess(e, s)) => SubmitChecks(u, s, e) = "inverted"

C9_Step ==
    (alert' # alert /\ alert'.kind \in {"past", "inverted"})
        => UNCHANGED <<bookings, bookingLocks, pc, req>>

C9_RangePrecheckFirst == [](C9_State) /\ [][C9_Step]_vars

C9_Witness ==
    /\ alert = Alert(Renter, "inverted")
    /\ items["i1"].availability.type = "recurring"
    /\ DOMAIN bookings # {}

\* C10: under a dateRange policy a candidate range is accepted by both
\* evaluations when it lies within the window, bounds included, a missing bound
\* being unbounded, and rejected by both otherwise.
InsideWindow(a, s, e, z) ==
    /\ HasTs(a.startDate) => DateLeq(LocalDate(ToDate(a.startDate), z), s)
    /\ HasTs(a.endDate) => DateLeq(e, LocalDate(ToDate(a.endDate), z))

C10_DateRangePolicy ==
    (fin # None /\ fout # None /\ fin[1].kind = "policy" /\ DateLeq(fin[1].startStr, fin[1].endStr))
        => LET inside == InsideWindow(fin[1].availability, fin[1].startStr, fin[1].endStr, fin[1].z)
           IN  /\ (fout[1].checked = "ok") <=> inside
               /\ (fout[1].validated = "ok") <=> inside

\* C11: under a recurring policy both evaluations accept a candidate exactly
\* when it starts and ends on the same calendar day and that day's weekday is
\* in daysOfWeek, and reject every multi-day candidate as multi-day, whatever
\* its weekdays.
Weekday(date) == (DaysFromCivil(date) + 4) % 7

C11_RecurringPolicy ==
    (fin # None /\ fout # None /\ fin[1].kind = "recurring")
        => LET sameDay == fin[1].startStr = fin[1].endStr
               allowed == Weekday(fin[1].startStr) \in fin[1].availability.daysOfWeek
           IN  /\ (fout[1].checked = "ok") <=> (sameDay /\ allowed)
               /\ (fout[1].validated = "ok") <=> (sameDay /\ allowed)
               /\ ~ sameDay => (fout[1].checked = "multi_day" /\ fout[1].validated = "multi_day")
               /\ (sameDay /\ ~ allowed) => (fout[1].checked = "wrong_day" /\ fout[1].validated = "wrong_day")

C11_Witness ==
    /\ fin # None /\ fout # None /\ fin[1].kind = "recurring"
    /\ DateLess(fin[1].startStr, fin[1].endStr)
    /\ Weekday(fin[1].startStr) \notin fin[1].availability.daysOfWeek
    /\ fout[1].checked = "multi_day"
    /\ fout[1].validated = "multi_day"

\* C12: the status of a booking is changed only by an action of the owner of
\* the booked item: a handleBookingAction call by any other user leaves the
\* status as it was.
C12_OnlyOwnerChangesStatus ==
    [][\A u \in Users, b \in DOMAIN bookings, st \in {"accepted", "declined"} :
          (handleBookingAction(u, b, st) /\ bookings'[b].status # bookings[b].status)
              => u = bookings[b].ownerId]_vars

\* C13: the only status transitions are pending -> accepted and
\* pending -> declined, also when the owner alone acts: a declined booking
\* never becomes accepted and an accepted one never becomes declined.
C13_OnlyFromPending ==
    [][\A b \in DOMAIN bookings, st \in {"accepted", "declined"} :
          (handleBookingAction(bookings[b].ownerId, b, st) /\ bookings'[b].status # bookings[b].status)
              => bookings[b].status = "pending"]_vars

C16_State ==
    /\ \A u \in Users : (req[u] # None /\ req[u][1].again) => pc[u] = "reading"
    /\ \A b1 \in DOMAIN bookings, b2 \in DOMAIN bookings :
          ( /\ bookings[b1].renterId = bookings[b2].renterId
            /\ bookings[b1].itemId = bookings[b2].itemId
            /\ bookings[b1].startDate = bookings[b2].startDate
            /\ bookings[b1].endDate = bookings[b2].endDate ) => b1 = b2

C16_Step ==
    \A u \in Users :
        (pc[u] = "reading" /\ req[u][1].again /\ pc'[u] # "reading")
            => /\ alert' \in {Alert(u, "conflict"), Alert(u, "failed")}
               /\ UNCHANGED <<bookings, bookingLocks>>

C20_Appended ==
    \A u \in Users, b \in DOMAIN bookings, st \in {"accepted", "declined"} :
        arrayUnion(bookings[b].statusHistory, [status |-> st, at |-> now, by |-> u])
            = Append(bookings[b].statusHistory, [status |-> st, at |-> now, by |-> u])

C20_Kept ==
    \A b \in DOMAIN bookings :
        /\ Len(bookings'[b].statusHistory) >= Len(bookings[b].statusHistory)
        /\ SubSeq(bookings'[b].statusHistory, 1, Len(bookings[b].statusHistory)) = bookings[b].statusHistory
        /\ bookings'[b].statusHistory[1].status = "pending"
        /\ bookings'[b].statusHistory[1].by = bookings'[b].renterId

C20_HistoryAppendOnly == [](C20_Appended) /\ [][C20_Kept]_vars

\* C14: both dashboards put a pending or accepted booking whose endDate is
\* before the viewer's today into the archived group and a declined booking
\* into the declined group, and the renter's and the owner's dashboards put
\* the same booking into the same group.
ExpectedGroup(b, u) ==
    IF bookings[b].status = "declined" THEN "declined"
    ELSE IF bookings[b].endDate < SetHoursZero(now, tz[u]) THEN "archived"
    ELSE bookings[b].status

C14_Loaded ==
    \A u \in Users :
        (loadMyBookings(u) \/ loadOwnerBookings(u))
            => \A b \in DOMAIN bookings, g \in ViewBuckets :
                  b \in fout'[1].groups[g] => g = ExpectedGroup(b, u)

C14_SameGroup ==
    \A b \in DOMAIN bookings :
        MyBookingsGroup(b) = OwnerBookingsGroup(b, SetHoursZero(now, tz[bookings[b].ownerId]))

C14_ViewsArchiveAlike == [](C14_SameGroup) /\ [][C14_Loaded]_vars

\* C15: no step removes a lock record, and a submit that starts after a
\* booking was declined, for a range with one of that booking's days, is bound
\* to be rejected: among the lock records it is about to read, one exists.
DeclinedDays(i) ==
    UNION {BookedDays(b) : b \in {d \in DOMAIN bookings :
                                     bookings[d].status = "declined" /\ bookings[d].itemId = i}}

C15_Submitted ==
    \A u \in Users :
        (pc[u] = "idle" /\ pc'[u] = "reading"
           /\ DaysBetween(req'[u][1].startStr, req'[u][1].endStr) \cap DeclinedDays(req'[u][1].item.id) # {})
            => Keys(req'[u][1].lockIds) \cap DOMAIN bookingLocks # {}

C15_Kept == DOMAIN bookingLocks \subseteq DOMAIN bookingLocks'

C15_LocksOutliveDecline == [][C15_Kept /\ C15_Submitted]_vars

\* C19: a commit whose conflict check passed is not held back by a lock that
\* another request created since: it can be applied, it reports success, the
\* new booking is stored as pending, every booking stored before stays as it
\* was, and the lock records of its keys now name the new booking.
Collides(u) == Keys(req[u][1].lockIds) \cap DOMAIN bookingLocks # {}

C19_State ==
    \A u \in Users :
        (pc[u] = "committing" /\ Collides(u) /\ Cardinality(DOMAIN bookings) < MaxBookings)
            => ENABLED Commit(u)

C19_Step ==
    \A u \in Users :
        (pc[u] = "committing" /\ Collides(u) /\ Commit(u))
            => /\ alert' = Alert(u, "success")
               /\ \A b \in DOMAIN bookings : bookings'[b] = bookings[b]
               /\ \A b \in DOMAIN bookings' \ DOMAIN bookings :
                     /\ bookings'[b].status = "pending"
                     /\ \A k \in Keys(req[u][1].lockIds) : bookingLocks'[k].bookingId = b

C19_LaterWriterWins == [](C19_State) /\ [][C19_Step]_vars

C19_Witness ==
    \E b1 \in DOMAIN bookings, b2 \in DOMAIN bookings :
        /\ b1 < b2
        /\ bookings[b1].renterId # bookings[b2].renterId
        /\ bookings[b1].status = "pending" /\ bookings[b2].status = "pending"
        /\ \E k \in Keys(bookings[b1].lockIds) : Claims(b2, k) /\ bookingLocks[k].bookingId = b2

\* C17: every validation failure of a submit (own item, past start, inverted
\* range, before the window, after the window, multi-day on a recurring item,
\* wrong weekday) ends the call with an alert whose text differs from the
\* text of every other kind, and writes nothing; no failing request ends
\* without an alert.
ValidationKinds ==
    {"own_item", "past", "inverted", "before_window", "after_window", "multi_day", "wrong_day"}

C17_State ==
    /\ \A k1 \in ValidationKinds, k2 \in ValidationKinds : AlertText(k1) = AlertText(k2) => k1 = k2
    /\ \A u \in Users, s \in DateStrs, e \in DateStrs :
          \/ SubmitChecks(u, s, e) = "proceed"
          \/ SubmitChecks(u, s, e) \in ValidationKinds /\ AlertText(SubmitChecks(u, s, e)) # ""

C17_Step ==
    \A u \in Users, s \in DateStrs, e \in DateStrs :
        (Submit(u, s, e) /\ SubmitChecks(u, s, e) # "proceed")
            => /\ alert' = Alert(u, SubmitChecks(u, s, e))
               /\ pc'[u] = "idle"
               /\ UNCHANGED <<bookings, bookingLocks, req>>

C17_FailuresAreReported == [](C17_State) /\ [][C17_Step]_vars

C17_Witness == alert = Alert(Renter, "after_window") /\ DOMAIN bookings # {}

\* C18: the date and availability checks of a submit are done before its first
\* read of bookingLocks: a call that starts reading has passed them and has had
\* no read answered yet, and a call that fails them never reads.
C18_Passed(u, r) ==
    /\ r.startDate >= r.today
    /\ r.endDate >= r.startDate
    /\ checkItemAvailability(r.item.availability, r.startDate, r.endDate, tz[u]) = "ok"

C18_State == \A u \in Users : req[u] # None => C18_Passed(u, req[u][1])

C18_Step ==
    \A u \in Users :
        /\ (pc[u] = "idle" /\ pc'[u] # "idle")
              => /\ pc'[u] = "reading"
                 /\ req'[u][1].unread = Keys(req'[u][1].lockIds)
                 /\ req'[u][1].existing = {}
        /\ (alert' # alert /\ alert'.by = u /\ alert'.kind \in ValidationKinds)
              => (req[u] = None /\ req'[u] = None)

C18_PolicyBeforeLockReads == [](C18_State) /\ [][C18_Step]_vars

C18_Witness ==
    /\ pc[Renter] = "committing"
    /\ items["i1"].availability.type = "recurring"
    /\ alert.kind = "wrong_day"

\* C21: once a booking is stored, its itemId, renterId, ownerId, startDate,
\* endDate and lockIds are the same in every later state; an accept or decline
\* changes nothing of that booking but status, statusHistory and updatedAt,
\* changes no other booking and changes no lock record.
C21_Fixed(old, new) ==
    /\ new.itemId = old.itemId
    /\ new.renterId = old.renterId
    /\ new.ownerId = old.ownerId
    /\ new.startDate = old.startDate
    /\ new.endDate = old.endDate
    /\ new.lockIds = old.lockIds
    /\ new.createdAt = old.createdAt

C21_Kept == \A b \in DOMAIN bookings : b \in DOMAIN bookings' /\ C21_Fixed(bookings[b], bookings'[b])

C21_Action ==
    \A u \in Users, b \in DOMAIN bookings, st \in {"accepted", "declined"} :
        handleBookingAction(u, b, st)
            => /\ bookingLocks' = bookingLocks
               /\ \A b2 \in DOMAIN bookings \ {b} : bookings'[b2] = bookings[b2]
               /\ DOMAIN bookings' = DOMAIN bookings

C21_ActionsChangeStatusOnly == [][C21_Kept /\ C21_Action]_vars

C21_Witness ==
    \E b \in DOMAIN bookings :
        /\ bookings[b].status = "declined"
        /\ Len(bookings[b].statusHistory) = 3
        /\ bookings[b].lockIds # <<>>
        /\ \A k \in Keys(bookings[b].lockIds) :
              k \in DOMAIN bookingLocks /\ bookingLocks[k].bookingId = b

\* C22: archival happens at read time only.  loadMyBookings and
\* loadOwnerBookings write nothing; a booking they show as archived has the
\* stored status pending or accepted; no stored status is ever archived.
C22_State == \A b \in DOMAIN bookings : StatusOf(bookings[b]) \in {"pending", "accepted", "declined"}

C22_Step ==
    \A u \in Users :
        (loadMyBookings(u) \/ loadOwnerBookings(u))
            => /\ UNCHANGED <<items, bookings, bookingLocks>>
               /\ \A b \in fout'[1].groups["archived"] :
                     StatusOf(bookings'[b]) \in {"pending", "accepted"}

C22_ArchivalIsReadTime == [](C22_State) /\ [][C22_Step]_vars

C22_Witness ==
    /\ fout # None
    /\ fout[1].view = "owner"
    /\ \E b \in fout[1].groups["archived"] :
          /\ bookings[b].status = "pending"
          /\ bookings[b].endDate < SetHoursZero(now, tz[fout[1].by])

\* C23: each dashboard puts a booking stored with the label confirmed into the
\* group it puts an accepted booking of the same dates into, the archived
\* group included, and a booking stored without a status into the group it
\* puts a pending booking of the same dates into.
C23_Alike(b1, b2) ==
    /\ bookings[b1].startDate = bookings[b2].startDate
    /\ bookings[b1].endDate = bookings[b2].endDate
    /\ \/ StatusOf(bookings[b1]) = "confirmed" /\ StatusOf(bookings[b2]) = "accepted"
       \/ StatusOf(bookings[b1]) = "" /\ StatusOf(bookings[b2]) = "pending"

C23_State ==
    \A b1 \in DOMAIN bookings, b2 \in DOMAIN bookings :
        C23_Alike(b1, b2)
            => /\ MyBookingsGroup(b1) = MyBookingsGroup(b2)
               /\ \A u \in Users :
                     OwnerBookingsGroup(b1, SetHoursZero(now, tz[u])) = OwnerBookingsGroup(b2, SetHoursZero(now, tz[u]))
               /\ fout # None => \A g \in ViewBuckets : b1 \in fout[1].groups[g] <=> b2 \in fout[1].groups[g]

C23_Step ==
    \A u \in Users :
        (loadMyBookings(u) \/ loadOwnerBookings(u))
            => \A b \in DOMAIN bookings :
                  /\ StatusOf(bookings[b]) = "confirmed" =>
                        \E g \in {"accepted", "archived"} : b \in fout'[1].groups[g]
                  /\ StatusOf(bookings[b]) = "" =>
                        \E g \in {"pending", "archived"} : b \in fout'[1].groups[g]

C23_LegacyLabels == [](C23_State) /\ [][C23_Step]_vars

C23_Witness ==
    /\ fout # None
    /\ fout[1].view = "owner"
    /\ \E b1 \in fout[1].groups["archived"], b2 \in fout[1].groups["archived"] :
          C23_Alike(b1, b2) /\ StatusOf(bookings[b1]) = "confirmed"
    /\ now > StartNow

\* C24: the store answering every read and every commit, a submit that has
\* started reading ends, with exactly one of success, rejection as a conflict
\* and reported failure; buildLockIds yields a finite list for every pair of
\* dates, the empty list when the end is before the start.
C24_Outcomes(u) == {Alert(u, "success"), Alert(u, "conflict"), Alert(u, "failed")}

C24_Loop ==
    \A s \in DateStrs, e \in DateStrs, z \in TZs :
        LET ids == buildLockIds("i1", ParseLocalMidnight(s, z), ParseLocalMidnight(e, z), z)
        IN  /\ Len(ids) <= NumDays
            /\ DateLess(e, s) => ids = <<>>

C24_OneOutcome ==
    \A u \in Users :
        /\ (pc[u] # "idle" /\ pc'[u] = "idle") => alert' \in C24_Outcomes(u)
        /\ (pc[u] # "idle" /\ pc'[u] # "idle") => alert' = alert

C25_DecisionsAgree ==
    ( /\ fin # None
      /\ fout # None
      /\ fin[1].kind \in {"policy", "recurring", "untyped"}
      /\ validateBookingDates(ParseLocalMidnight(fin[1].startStr, fin[1].z),
                              ParseLocalMidnight(fin[1].endStr, fin[1].z), StartNow, fin[1].z) = "ok" )
        => ((fout[1].checked = "ok") <=> (fout[1].validated = "ok"))

\* C26: for every pending or accepted booking and every key of its lockIds,
\* the lock record stored under the key exists and names that booking.
C26_LocksNameTheirBooking ==
    \A b \in DOMAIN bookings :
        Active(b) => \A k \in Keys(bookings[b].lockIds) :
                        k \in DOMAIN bookingLocks /\ bookingLocks[k].bookingId = b

\* C27: the keys derived for a range do not depend on the UTC offset of the
\* browser that derives them: for every offset from UTC-12 to UTC+14 the date
\* in the n-th key is the n-th requested calendar date, and a browser at any
\* other offset derives the same keys for the same dates.
C27_KeysIgnoreOffset ==
    (fin # None /\ fout # None /\ fin[1].kind = "keys" /\ DateLeq(fin[1].startStr, fin[1].endStr))
        => /\ \A n \in 1 .. Len(fout[1]) :
                 fout[1][n][2] = CivilFromDays(DaysFromCivil(fin[1].startStr) + n - 1)
           /\ \A z \in Offsets :
                 fout[1] = buildLockIds(fin[1].itemId, ParseLocalMidnight(fin[1].startStr, z),
                                        ParseLocalMidnight(fin[1].endStr, z), z)

\* C28: after any sequence of accept and decline actions on a booking, its
\* stored status is the status of the last entry of its statusHistory.
C28_StatusIsLastEntry ==
    \A b \in DOMAIN bookings :
        bookings[b].status = bookings[b].statusHistory[Len(bookings[b].statusHistory)].status

\* C29: a booking is stored only for a range that the availability stored
\* for its item at the moment of the commit allows, on an item whose stored
\* owner is the booking's ownerId and not the renter.
C29_Step ==
    \A u \in Users :
        Commit(u) =>
            LET r == req[u][1]
            IN  /\ checkItemAvailability(items[r.item.id].availability, r.startDate, r.endDate, tz[u]) = "ok"
                /\ items[r.item.id].ownerId = r.item.ownerId
                /\ items[r.item.id].ownerId # u

C29_BookingMeetsStoredPolicy == [][C29_Step]_vars

\* C30: on a loaded session of n >= 1 events, whatever the play, pause,
\* reset, jump, scrubber and timeout events, replay.playbackIndex stays
\* within 0 .. n - 1 and at most one timeout is pending.
C30_IndexAndTimerBounded ==
    replay.currentPlaybackEvents >= 1
        => /\ replay.playbackIndex \in 0 .. replay.currentPlaybackEvents - 1
           /\ Cardinality(replay.timers) <= 1

====
